---------------------------- MODULE Spec2Model ----------------------------
(***************************************************************************)
(* Model of config/logs/integration_config.go: the LogsConfig source       *)
(* descriptor, the TailingMode enumeration with its string <-> enum table, *)
(* and LogsConfig.Validate.                                                *)
(*                                                                         *)
(* The program is single-threaded: one call is in progress at a time.      *)
(* Validate is modelled statement by statement (one action per case of its *)
(* switch and per collaborator call) so that the order of evaluation is    *)
(* observable in `trace`.  Strings that the code inspects character by     *)
(* character (Path) are sequences of one-character strings; strings that   *)
(* are only compared for equality (Type, TailingMode) are TLA+ strings.    *)
(***************************************************************************)
EXTENDS Integers, Sequences, FiniteSets

VARIABLES
    op,      \* the function being called
    pc,      \* position inside the call
    c,       \* the *LogsConfig receiver of Validate
    argS,    \* string argument of TailingModeFromString
    argM,    \* TailingMode receiver of String
    mode,    \* TailingMode returned by TailingModeFromString
    found,   \* found flag returned by TailingModeFromString
    str,     \* string returned by TailingMode.String
    err,     \* error returned by Validate
    trace    \* the switch cases evaluated and the collaborators invoked, in order

vars == <<op, pc, c, argS, argM, mode, found, str, err, trace>>

-----------------------------------------------------------------------------
(* Bounds of the model *)

MaxPathLen == 2
MaxRules == 1

-----------------------------------------------------------------------------
(* Logs source types *)

TCPType == "tcp"
UDPType == "udp"
FileType == "file"
DockerType == "docker"
JournaldType == "journald"
WindowsEventType == "windows_event"
SnmpTrapsType == "snmp_traps"
StringChannelType == "string_channel"

(* Values of the Type field: the eight tags, the zero value, and a tag the *)
(* package does not declare.                                               *)
TypeValues ==
    {"", TCPType, UDPType, FileType, DockerType, JournaldType,
     WindowsEventType, SnmpTrapsType, StringChannelType, "kafka"}

(* Values of the Port field (a Go int). *)
PortValues == {0, 514, -1}

(* Characters of a path: a plain character and the three wildcard ones. *)
PathChars == {"a", "*", "?", "["}

RECURSIVE SeqsUpTo(_, _)
SeqsUpTo(S, n) ==
    IF n = 0 THEN {<<>>}
    ELSE LET shorter == SeqsUpTo(S, n - 1)
         IN  shorter \cup {Append(s, x) : s \in shorter, x \in S}

PathValues == SeqsUpTo(PathChars, MaxPathLen)

(* Values of the TailingMode (start_position) field. *)
TailingModeStrings ==
    {"", "forceBeginning", "forceEnd", "beginning", "end",
     "sideways", "End", "Beginning", "unknown-garbage"}

(* A processing rule is opaque here; all that matters is what the two      *)
(* collaborators make of it.                                               *)
RuleKinds == {"ok", "invalid", "uncompilable"}

RulesValues == SeqsUpTo(RuleKinds, MaxRules)

LogsConfig ==
    [Type : TypeValues, Port : PortValues, Path : PathValues,
     TailingMode : TailingModeStrings, ProcessingRules : RulesValues]

ZeroLogsConfig ==
    [Type |-> "", Port |-> 0, Path |-> <<>>, TailingMode |-> "",
     ProcessingRules |-> <<>>]

-----------------------------------------------------------------------------
(* Errors.  fmt.Errorf formats a message from its verbs: an error is the   *)
(* format together with the values it names.                               *)

Errorf(msg, m, p) == [nil |-> FALSE, msg |-> msg, mode |-> m, path |-> p]

Nil == [nil |-> TRUE, msg |-> "", mode |-> "", path |-> <<>>]

-----------------------------------------------------------------------------
(* Tailing modes *)

MaxUint8 == 255
TailingModeValues == 0..MaxUint8

ForceBeginning == 0
ForceEnd == 1
Beginning == 2
End == 3

tailingModeTuples_EndSlip ==
    << [s |-> "forceBeginning", m |-> ForceBeginning],
       [s |-> "forceEnd", m |-> ForceEnd],
       [s |-> "beginning", m |-> Beginning],
       [s |-> "end", m |-> Beginning] >>

tailingModeTuples ==
    << [s |-> "forceBeginning", m |-> ForceBeginning],
       [s |-> "forceEnd", m |-> ForceEnd],
       [s |-> "beginning", m |-> Beginning],
       [s |-> "end", m |-> End] >>

(* for _, t := range tailingModeTuples { if t.s == mode { return t.m, true } } *)
RECURSIVE ScanByString(_, _)
ScanByString(i, s) ==
    IF i > Len(tailingModeTuples) THEN [m |-> End, found |-> FALSE]
    ELSE IF tailingModeTuples[i].s = s
         THEN [m |-> tailingModeTuples[i].m, found |-> TRUE]
         ELSE ScanByString(i + 1, s)

TailingModeFromString_FoundOnMiss(s) ==
    [m |-> ScanByString(1, s).m, found |-> TRUE]

TailingModeFromString(s) == ScanByString(1, s)

(* for _, t := range tailingModeTuples { if t.m == mode { return t.s } } *)
RECURSIVE ScanByMode(_, _)
ScanByMode(i, m) ==
    IF i > Len(tailingModeTuples) THEN ""
    ELSE IF tailingModeTuples[i].m = m
         THEN tailingModeTuples[i].s
         ELSE ScanByMode(i + 1, m)

String(m) == ScanByMode(1, m)

-----------------------------------------------------------------------------
(* Wildcards *)

(* strings.ContainsAny(s, chars): some character of s is a character of chars *)
ContainsAny(s, chars) ==
    \E i \in DOMAIN s : \E j \in DOMAIN chars : s[i] = chars[j]

ContainsWildcard_NoBracket(path) == ContainsAny(path, <<"*", "?">>)

ContainsWildcard(path) == ContainsAny(path, <<"*", "?", "[">>)

-----------------------------------------------------------------------------
(* validateTailingMode *)

validateTailingMode_NoFoundCheck(cfg) ==
    LET r == TailingModeFromString(cfg.TailingMode)
    IN  IF ContainsWildcard(cfg.Path) /\ (r.m = Beginning \/ r.m = ForceBeginning)
        THEN Errorf("tailing from the beginning is not supported for wildcard path",
                    "", cfg.Path)
        ELSE Nil

validateTailingMode_EmptyOnly(cfg) ==
    LET r == TailingModeFromString(cfg.TailingMode)
    IN  IF ~r.found /\ cfg.TailingMode = ""
        THEN Errorf("invalid tailing mode", cfg.TailingMode, cfg.Path)
        ELSE IF ContainsWildcard(cfg.Path)
                /\ (r.m = Beginning \/ r.m = ForceBeginning)
        THEN Errorf("tailing from the beginning is not supported for wildcard path",
                    "", cfg.Path)
        ELSE Nil

validateTailingMode(cfg) ==
    LET r == TailingModeFromString(cfg.TailingMode)
    IN  IF ~r.found /\ cfg.TailingMode # ""
        THEN Errorf("invalid tailing mode", cfg.TailingMode, cfg.Path)
        ELSE IF ContainsWildcard(cfg.Path)
                /\ (r.m = Beginning \/ r.m = ForceBeginning)
        THEN Errorf("tailing from the beginning is not supported for wildcard path",
                    "", cfg.Path)
        ELSE Nil

-----------------------------------------------------------------------------
(* The rule collaborators: each reports an error or nil for the list. *)

ValidateProcessingRules(rules) ==
    IF \E i \in DOMAIN rules : rules[i] = "invalid"
    THEN Errorf("rule validation error", "", <<>>)
    ELSE Nil

CompileProcessingRules(rules) ==
    IF \E i \in DOMAIN rules : rules[i] = "uncompilable"
    THEN Errorf("rule compilation error", "", <<>>)
    ELSE Nil

-----------------------------------------------------------------------------
(* State machine *)

Init ==
    /\ op = "none"
    /\ pc = "idle"
    /\ c = ZeroLogsConfig
    /\ argS = ""
    /\ argM = 0
    /\ mode = 0
    /\ found = FALSE
    /\ str = ""
    /\ err = Nil
    /\ trace = <<>>

(* Validate keeps nothing between calls and does not modify the descriptor, *)
(* so every call is taken from the initial state.                           *)
Returned == pc = "idle"

tmUnchanged == UNCHANGED <<argS, argM, mode, found, str>>

(* A caller hands a populated descriptor to Validate. *)
CallValidate ==
    /\ Returned
    /\ \E cfg \in LogsConfig : c' = cfg
    /\ op' = "Validate"
    /\ pc' = "case_empty"
    /\ argS' = ""
    /\ argM' = 0
    /\ mode' = 0
    /\ found' = FALSE
    /\ str' = ""
    /\ err' = Nil
    /\ trace' = <<>>

Return(e) ==
    /\ err' = e
    /\ pc' = "done"

Goto(l) ==
    /\ pc' = l
    /\ UNCHANGED err

(* case c.Type == "": return fmt.Errorf("a config must have a type") *)
CaseTypeEmpty_FallThrough ==
    /\ op = "Validate" /\ pc = "case_empty"
    /\ trace' = Append(trace, "case_empty")
    /\ Goto("case_file")
    /\ UNCHANGED <<op, c>> /\ tmUnchanged

CaseTypeEmpty_RulesFirst ==
    /\ op = "Validate" /\ pc = "case_empty"
    /\ trace' = Append(trace, "case_empty")
    /\ IF c.Type = "" /\ ValidateProcessingRules(c.ProcessingRules) # Nil
       THEN Return(ValidateProcessingRules(c.ProcessingRules))
       ELSE IF c.Type = ""
       THEN Return(Errorf("a config must have a type", "", <<>>))
       ELSE Goto("case_file")
    /\ UNCHANGED <<op, c>> /\ tmUnchanged

CaseTypeEmpty ==
    /\ op = "Validate" /\ pc = "case_empty"
    /\ trace' = Append(trace, "case_empty")
    /\ IF c.Type = ""
       THEN Return(Errorf("a config must have a type", "", <<>>))
       ELSE Goto("case_file")
    /\ UNCHANGED <<op, c>> /\ tmUnchanged

(* case c.Type == FileType: *)
CaseFile ==
    /\ op = "Validate" /\ pc = "case_file"
    /\ trace' = Append(trace, "case_file")
    /\ IF c.Type = FileType THEN Goto("file_path") ELSE Goto("case_tcp")
    /\ UNCHANGED <<op, c>> /\ tmUnchanged

(* if c.Path == "" { return fmt.Errorf("file source must have a path") } *)
FilePath_AfterTailingMode ==
    /\ op = "Validate" /\ pc = "file_path"
    /\ trace' = Append(trace, "file_path")
    /\ IF validateTailingMode(c) # Nil
       THEN Return(validateTailingMode(c))
       ELSE IF c.Path = <<>>
       THEN Return(Errorf("file source must have a path", "", <<>>))
       ELSE Goto("tailing")
    /\ UNCHANGED <<op, c>> /\ tmUnchanged

FilePath ==
    /\ op = "Validate" /\ pc = "file_path"
    /\ trace' = Append(trace, "file_path")
    /\ IF c.Path = <<>>
       THEN Return(Errorf("file source must have a path", "", <<>>))
       ELSE Goto("tailing")
    /\ UNCHANGED <<op, c>> /\ tmUnchanged

(* err := c.validateTailingMode(); if err != nil { return err } *)
FileTailingMode ==
    /\ op = "Validate" /\ pc = "tailing"
    /\ trace' = Append(trace, "validateTailingMode")
    /\ mode' = TailingModeFromString(c.TailingMode).m
    /\ found' = TailingModeFromString(c.TailingMode).found
    /\ IF validateTailingMode(c) # Nil
       THEN Return(validateTailingMode(c))
       ELSE Goto("rules")
    /\ UNCHANGED <<op, c, argS, argM, str>>

(* case c.Type == TCPType && c.Port == 0: *)
CaseTCP ==
    /\ op = "Validate" /\ pc = "case_tcp"
    /\ trace' = Append(trace, "case_tcp")
    /\ IF c.Type = TCPType /\ c.Port = 0
       THEN Return(Errorf("tcp source must have a port", "", <<>>))
       ELSE Goto("case_udp")
    /\ UNCHANGED <<op, c>> /\ tmUnchanged

(* case c.Type == UDPType && c.Port == 0: *)
CaseUDP_CopiedMessage ==
    /\ op = "Validate" /\ pc = "case_udp"
    /\ trace' = Append(trace, "case_udp")
    /\ IF c.Type = UDPType /\ c.Port = 0
       THEN Return(Errorf("tcp source must have a port", "", <<>>))
       ELSE Goto("rules")
    /\ UNCHANGED <<op, c>> /\ tmUnchanged

CaseUDP ==
    /\ op = "Validate" /\ pc = "case_udp"
    /\ trace' = Append(trace, "case_udp")
    /\ IF c.Type = UDPType /\ c.Port = 0
       THEN Return(Errorf("udp source must have a port", "", <<>>))
       ELSE Goto("rules")
    /\ UNCHANGED <<op, c>> /\ tmUnchanged

(* err := ValidateProcessingRules(c.ProcessingRules); if err != nil { return err } *)
ValidateRules_IgnoreError ==
    /\ op = "Validate" /\ pc = "rules"
    /\ trace' = Append(trace, "ValidateProcessingRules")
    /\ Goto("compile")
    /\ UNCHANGED <<op, c>> /\ tmUnchanged

ValidateRules ==
    /\ op = "Validate" /\ pc = "rules"
    /\ trace' = Append(trace, "ValidateProcessingRules")
    /\ IF ValidateProcessingRules(c.ProcessingRules) # Nil
       THEN Return(ValidateProcessingRules(c.ProcessingRules))
       ELSE Goto("compile")
    /\ UNCHANGED <<op, c>> /\ tmUnchanged

(* return CompileProcessingRules(c.ProcessingRules) *)
CompileRules ==
    /\ op = "Validate" /\ pc = "compile"
    /\ trace' = Append(trace, "CompileProcessingRules")
    /\ Return(CompileProcessingRules(c.ProcessingRules))
    /\ UNCHANGED <<op, c>> /\ tmUnchanged

(* A caller resolves a string. *)
CallTailingModeFromString ==
    /\ Returned
    /\ \E s \in TailingModeStrings :
          /\ argS' = s
          /\ mode' = TailingModeFromString(s).m
          /\ found' = TailingModeFromString(s).found
    /\ op' = "TailingModeFromString"
    /\ pc' = "done"
    /\ argM' = 0
    /\ str' = ""
    /\ c' = ZeroLogsConfig
    /\ err' = Nil
    /\ trace' = <<>>

(* A caller renders a mode. *)
CallString ==
    /\ Returned
    /\ \E m \in TailingModeValues :
          /\ argM' = m
          /\ str' = String(m)
    /\ op' = "String"
    /\ pc' = "done"
    /\ argS' = ""
    /\ mode' = 0
    /\ found' = FALSE
    /\ c' = ZeroLogsConfig
    /\ err' = Nil
    /\ trace' = <<>>

(* A caller renders the mode it has just resolved. *)
CallStringOfResolved ==
    /\ op = "TailingModeFromString" /\ pc = "done"
    /\ found
    /\ op' = "FromStringThenString"
    /\ argM' = mode
    /\ str' = String(mode)
    /\ UNCHANGED <<pc, c, argS, mode, found, err, trace>>

(* A caller resolves the string it has just rendered. *)
CallFromStringOfRendered ==
    /\ op = "String" /\ pc = "done"
    /\ op' = "StringThenFromString"
    /\ argS' = str
    /\ mode' = TailingModeFromString(str).m
    /\ found' = TailingModeFromString(str).found
    /\ UNCHANGED <<pc, c, argM, str, err, trace>>

Next ==
    \/ CallValidate
    \/ CaseTypeEmpty
    \/ CaseFile
    \/ FilePath
    \/ FileTailingMode
    \/ CaseTCP
    \/ CaseUDP
    \/ ValidateRules
    \/ CompileRules
    \/ CallTailingModeFromString
    \/ CallString
    \/ CallStringOfResolved
    \/ CallFromStringOfRendered

Spec == Init /\ [][Next]_vars

-----------------------------------------------------------------------------
(* Vocabulary of the properties, stated without the operators above. *)

LogTypes ==
    {"tcp", "udp", "file", "docker", "journald", "windows_event",
     "snmp_traps", "string_channel"}

CanonicalModes == {"forceBeginning", "forceEnd", "beginning", "end"}

WildcardChars == {"*", "?", "["}

HasWildcard(path) == \E i \in 1..Len(path) : path[i] \in WildcardChars

AllRulesGood(rules) == \A i \in 1..Len(rules) : rules[i] = "ok"

SomeRuleInvalid(rules) == \E i \in 1..Len(rules) : rules[i] = "invalid"

Invoked(step) == \E i \in 1..Len(trace) : trace[i] = step

Collaborators == {"ValidateProcessingRules", "CompileProcessingRules"}

ValidateDone == op = "Validate" /\ pc = "done"

ValidateOK == ValidateDone /\ err.nil

(* The checks of steps 1-5 hold of the descriptor. *)
StructurallyValid(cfg) ==
    /\ cfg.Type # ""
    /\ cfg.Type = "file" =>
          /\ cfg.Path # <<>>
          /\ cfg.TailingMode \in CanonicalModes \cup {""}
          /\ ~(HasWildcard(cfg.Path)
               /\ cfg.TailingMode \in {"beginning", "forceBeginning"})
    /\ cfg.Type \in {"tcp", "udp"} => cfg.Port # 0

-----------------------------------------------------------------------------
(* C1: in every call of Validate, ValidateProcessingRules is invoked only  *)
(* after all structural checks have passed (and no structural check is     *)
(* evaluated after it), CompileProcessingRules is invoked only after        *)
(* ValidateProcessingRules has been invoked and returned nil in that call;  *)
(* when a structurally valid descriptor's rules fail validation, Validate   *)
(* returns exactly the rule-validation error and CompileProcessingRules is  *)
(* never invoked.                                                           *)
C1_RulesAfterStructure ==
    op = "Validate" =>
      /\ \A i \in 1..Len(trace) :
            trace[i] = "ValidateProcessingRules" =>
               /\ StructurallyValid(c)
               /\ \A j \in 1..Len(trace) :
                     j > i => trace[j] = "CompileProcessingRules"
               /\ \A j \in 1..Len(trace) :
                     j < i => trace[j] \notin Collaborators
      /\ \A i \in 1..Len(trace) :
            trace[i] = "CompileProcessingRules" =>
               /\ i > 1 /\ trace[i - 1] = "ValidateProcessingRules"
               /\ ~SomeRuleInvalid(c.ProcessingRules)
               /\ i = Len(trace)
      /\ (pc = "done" /\ StructurallyValid(c) /\ SomeRuleInvalid(c.ProcessingRules)) =>
            /\ err = Errorf("rule validation error", "", <<>>)
            /\ ~Invoked("CompileProcessingRules")

C1_Witness ==
    /\ ValidateDone
    /\ StructurallyValid(c)
    /\ SomeRuleInvalid(c.ProcessingRules)
    /\ Invoked("ValidateProcessingRules")
    /\ err.msg = "rule validation error"

(* C2 as stated: after Validate returns success the declared type is       *)
(* non-empty and is one of the eight type tags.                            *)
C2_Original == ValidateOK => c.Type \in LogTypes

(* C2 as amended: after Validate returns success the declared type is      *)
(* non-empty (it need not be one of the eight tags).                       *)
C2_TypeNonEmpty == ValidateOK => c.Type # ""

C2_Witness == ValidateOK /\ c.Type = "kafka" /\ Len(trace) > 1

(* C3: for a file descriptor with a non-empty path and a rule list that    *)
(* validates and compiles, Validate fails with the wildcard-tailing error  *)
(* exactly when the path has one of * ? [ and the tailing mode is          *)
(* "beginning" or "forceBeginning"; a wildcard path with "end", "forceEnd" *)
(* or "" succeeds.                                                         *)
C3_WildcardTailing ==
    (ValidateDone /\ c.Type = "file" /\ c.Path # <<>>
       /\ AllRulesGood(c.ProcessingRules)) =>
      /\ (err = Errorf("tailing from the beginning is not supported for wildcard path",
                       "", c.Path))
            <=> (HasWildcard(c.Path)
                 /\ c.TailingMode \in {"beginning", "forceBeginning"})
      /\ (HasWildcard(c.Path) /\ c.TailingMode \in {"end", "forceEnd", ""})
            => err.nil

C3_Witness ==
    /\ ValidateDone /\ c.Type = "file"
    /\ c.Path = <<"a", "[">>
    /\ c.TailingMode = "forceBeginning"
    /\ AllRulesGood(c.ProcessingRules)
    /\ err.msg = "tailing from the beginning is not supported for wildcard path"

(* C4 as stated: after Validate returns success on a descriptor of any     *)
(* type, the tailing-mode string is empty or one of the four canonical     *)
(* strings.                                                                *)
C4_Original == ValidateOK => c.TailingMode \in CanonicalModes \cup {""}

(* C4 as amended: after Validate returns success on a file-type            *)
(* descriptor, the tailing-mode string is empty or one of the four         *)
(* canonical strings.                                                      *)
C4_FileTailingModeCanonical ==
    (ValidateOK /\ c.Type = "file") => c.TailingMode \in CanonicalModes \cup {""}

C4_Witness ==
    /\ ValidateOK /\ c.Type = "file"
    /\ c.TailingMode = "forceEnd"
    /\ Invoked("validateTailingMode")

(* C5: a file descriptor with a non-empty path and a tailing-mode string   *)
(* that is neither empty nor canonical fails with the invalid-tailing-mode *)
(* error naming the string and the path, wildcard path or not, and neither *)
(* rule collaborator is invoked.                                           *)
C5_InvalidTailingMode ==
    (ValidateDone /\ c.Type = "file" /\ c.Path # <<>>
       /\ c.TailingMode \notin CanonicalModes \cup {""}) =>
      /\ err = Errorf("invalid tailing mode", c.TailingMode, c.Path)
      /\ \A i \in 1..Len(trace) : trace[i] \notin Collaborators

C5_Witness ==
    /\ ValidateDone /\ c.Type = "file"
    /\ c.TailingMode = "sideways"
    /\ HasWildcard(c.Path)
    /\ err.msg = "invalid tailing mode" /\ err.mode = "sideways"

(* C6: a file descriptor with an empty path fails with "file source must   *)
(* have a path" whatever the tailing mode, port and rule list are.         *)
C6_MissingPath ==
    (ValidateDone /\ c.Type = "file" /\ c.Path = <<>>) =>
      err = Errorf("file source must have a path", "", <<>>)

C6_Witness ==
    /\ ValidateDone /\ c.Type = "file" /\ c.Path = <<>>
    /\ c.TailingMode = "sideways" /\ c.Port = 514
    /\ SomeRuleInvalid(c.ProcessingRules)
    /\ err.msg = "file source must have a path"

(* C7: a descriptor with an empty type fails with "a config must have a    *)
(* type" whatever the other fields are, and no later check or collaborator *)
(* is evaluated.                                                           *)
C7_MissingType ==
    (ValidateDone /\ c.Type = "") =>
      /\ err = Errorf("a config must have a type", "", <<>>)
      /\ trace = <<"case_empty">>

C7_Witness ==
    /\ ValidateDone /\ c.Type = ""
    /\ c.Path # <<>> /\ c.Port = 514 /\ c.TailingMode = "sideways"
    /\ SomeRuleInvalid(c.ProcessingRules)
    /\ err.msg = "a config must have a type"

(* C8: a tcp (udp) descriptor with port 0 fails with "tcp (udp) source     *)
(* must have a port"; a tcp or udp descriptor with a non-zero port and a   *)
(* rule list that validates and compiles succeeds whatever its path is.    *)
C8_NetworkPort ==
    ValidateDone =>
      /\ (c.Type = "tcp" /\ c.Port = 0) =>
            err = Errorf("tcp source must have a port", "", <<>>)
      /\ (c.Type = "udp" /\ c.Port = 0) =>
            err = Errorf("udp source must have a port", "", <<>>)
      /\ (c.Type \in {"tcp", "udp"} /\ c.Port # 0
            /\ AllRulesGood(c.ProcessingRules)) => err.nil

C8_Witness ==
    /\ ValidateOK /\ c.Type = "tcp" /\ c.Port = 514 /\ c.Path = <<>>

(* C9: TailingModeFromString(s) returns found = true exactly when s is one *)
(* of the four canonical strings (case-sensitively); for every other       *)
(* string it returns (End, false), unlike "end", which gives (End, true).  *)
C9_FromString ==
    op = "TailingModeFromString" =>
      /\ found <=> argS \in CanonicalModes
      /\ argS \notin CanonicalModes => (mode = 3 /\ ~found)
      /\ argS = "end" => (mode = 3 /\ found)

C9_Witness ==
    /\ op = "TailingModeFromString"
    /\ argS = "End"
    /\ mode = 3 /\ ~found

(* C10: resolving a canonical string succeeds and rendering the result     *)
(* gives the string back; resolving the rendering of one of the four enum  *)
(* values gives (that value, true); String returns "" for a TailingMode    *)
(* outside the four values.                                                *)
C10_RoundTrip ==
    /\ (op = "TailingModeFromString" /\ argS \in CanonicalModes) => found
    /\ op = "FromStringThenString" => str = argS
    /\ (op = "StringThenFromString" /\ argM \in 0..3) => (mode = argM /\ found)
    /\ (op \in {"String", "StringThenFromString"} /\ argM \notin 0..3) => str = ""

C10_Witness ==
    /\ op = "FromStringThenString"
    /\ argS = "end" /\ argM = 3 /\ str = "end"

=============================================================================
